---- MODULE Spec2Model ----
(***************************************************************************)
(* STA Financial Engine v0.1, core/financial/engine/                       *)
(* sta_financial_engine_v0_1.py: value normalisation, statement parsing,   *)
(* the five per-entity constraint checks, rule annotation and the report.  *)
(*                                                                         *)
(* Representation.                                                         *)
(*   A Python value is a record [t, n, s]: t its type tag, n its integer   *)
(*   payload, s its text.  Floats carry integer values only; nan and       *)
(*   +/-inf are values of their own, with IEEE arithmetic and comparisons. *)
(*   A str is a sequence of atoms: single characters in a numeric cell,    *)
(*   whitespace atoms and word atoms in an identifier cell.                *)
(*   A dict is a function; a missing key is a key outside its DOMAIN.      *)
(*   pct_tol is carried in thousandths (0.001 is 1), and a product with it *)
(*   is compared exactly.                                                  *)
(***************************************************************************)
EXTENDS Integers, Sequences, FiniteSets, TLC

VARIABLES
    pc,           \* position in run(), or in the function under study
    rules_pack,   \* the loaded rule pack: the list under its "rules" key
    tolerance,    \* the constraint pack's tolerance_defaults dict
    nrows,        \* rows of the dataset read so far
    entities,     \* _parse_dataset's ordered dict, a sequence of [id, stmts]
    kept,         \* entities as parsed from the rows whose ids are not blank
    nchecked,     \* entities the check loop of run() has been through
    signals,      \* run()'s signals list
    report,       \* run()'s report dict
    arg,          \* argument of the function under study
    ret           \* its result

vars == <<pc, rules_pack, tolerance, nrows, entities, kept, nchecked, signals,
          report, arg, ret>>

----------------------------------------------------------------------------
(* Python values *)

Val(t, n, s) == [t |-> t, n |-> n, s |-> s]

None == Val("none", 0, <<>>)

Bool(b) == Val("bool", IF b THEN 1 ELSE 0, <<>>)

PyInt(n) == Val("int", n, <<>>)

\* an int beyond the range of a float, of the given sign
HugeInt(sign) == Val("hugeint", sign, <<>>)

Float(n) == Val("float", n, <<>>)

NaN == Val("nan", 0, <<>>)

Inf(sign) == Val("inf", sign, <<>>)

Str(s) == Val("str", 0, s)

\* a list or a dict: neither None, a number nor a str
Other == Val("other", 0, <<>>)

\* an exception leaving the function
Raised(what) == Val("raise", 0, <<what>>)

EmptyDict == [k \in {} |-> None]

Get(d, k, default) == IF k \in DOMAIN d THEN d[k] ELSE default

Put(d, k, v) == (k :> v) @@ d

----------------------------------------------------------------------------
(* float arithmetic and comparison: integers, nan, +inf, -inf *)

FNeg(a) ==
    CASE a.t = "float" -> Float(0 - a.n)
      [] a.t = "inf" -> Inf(0 - a.n)
      [] OTHER -> NaN

FAbs(a) ==
    CASE a.t = "float" -> Float(IF a.n < 0 THEN 0 - a.n ELSE a.n)
      [] a.t = "inf" -> Inf(1)
      [] OTHER -> NaN

FAdd(a, b) ==
    CASE a.t = "nan" \/ b.t = "nan" -> NaN
      [] a.t = "inf" /\ b.t = "inf" -> IF a.n = b.n THEN a ELSE NaN
      [] a.t = "inf" -> a
      [] b.t = "inf" -> b
      [] OTHER -> Float(a.n + b.n)

FSub(a, b) == FAdd(a, FNeg(b))

FLt(a, b) ==
    /\ a.t # "nan"
    /\ b.t # "nan"
    /\ \/ a.t = "float" /\ b.t = "float" /\ a.n < b.n
       \/ a = Inf(-1) /\ b # Inf(-1)
       \/ b = Inf(1) /\ a # Inf(1)

FEq(a, b) == a.t # "nan" /\ b.t # "nan" /\ a = b

FLe(a, b) == FLt(a, b) \/ FEq(a, b)

FGt(a, b) == FLt(b, a)

FGe(a, b) == FLe(b, a)

\* d <= b * (pctMilli / 1000), for d and b not negative and pctMilli >= 0
LePct(d, b, pctMilli) ==
    /\ d.t # "nan"
    /\ b.t # "nan"
    /\ IF b.t = "inf"
       THEN pctMilli > 0
       ELSE /\ d.t = "float"
            /\ d.n <= (b.n \div 1000) * pctMilli + ((b.n % 1000) * pctMilli) \div 1000

\* r < e * 0.1, for r and e not negative
LtTenth(r, e) ==
    /\ r.t # "nan"
    /\ e.t # "nan"
    /\ IF e.t = "inf" THEN r.t = "float" ELSE r.t = "float" /\ r.n * 10 < e.n

----------------------------------------------------------------------------
(* str *)

Whitespace == {" "}

RECURSIVE LStrip(_)
LStrip(s) ==
    IF s # <<>> /\ Head(s) \in Whitespace THEN LStrip(Tail(s)) ELSE s

RECURSIVE RStrip(_)
RStrip(s) ==
    IF s # <<>> /\ s[Len(s)] \in Whitespace
    THEN RStrip(SubSeq(s, 1, Len(s) - 1))
    ELSE s

\* str.strip()
Strip(s) == RStrip(LStrip(s))

\* s.replace(c, "")
RECURSIVE Remove(_, _)
Remove(s, c) ==
    IF s = <<>> THEN <<>>
    ELSE IF Head(s) = c THEN Remove(Tail(s), c)
    ELSE <<Head(s)>> \o Remove(Tail(s), c)

Digits == <<"0", "1", "2", "3", "4", "5", "6", "7", "8", "9">>

IsDigit(c) == \E i \in 1..Len(Digits) : Digits[i] = c

DigitVal(c) == (CHOOSE i \in 1..Len(Digits) : Digits[i] = c) - 1

RECURSIVE Decimal(_, _)
Decimal(s, acc) ==
    IF s = <<>> THEN acc ELSE Decimal(Tail(s), acc * 10 + DigitVal(Head(s)))

\* float(s) on text without a fraction or an exponent: an optional sign, then
\* digits, "nan" or "inf"; anything else is a ValueError
PyFloat(s) ==
    LET neg == s # <<>> /\ Head(s) = "-"
        signed == s # <<>> /\ Head(s) \in {"-", "+"}
        body == IF signed THEN Tail(s) ELSE s
    IN  CASE body = <<"n", "a", "n">> -> NaN
          [] body = <<"i", "n", "f">> -> Inf(IF neg THEN -1 ELSE 1)
          [] body # <<>> /\ \A i \in 1..Len(body) : IsDigit(body[i]) ->
                Float(IF neg THEN 0 - Decimal(body, 0) ELSE Decimal(body, 0))
          [] OTHER -> Raised("ValueError")

to_float(x) ==
    CASE x.t = "none" -> None
      [] x.t \in {"int", "float", "nan", "inf", "hugeint"} ->
            \* math.isnan(x) converts an int to a float first
            IF x.t = "hugeint" THEN Raised("OverflowError")
            ELSE IF x.t = "nan" THEN None
            ELSE IF x.t = "inf" THEN x
            ELSE Float(x.n)
      [] x.t = "str" ->
            LET s == Strip(x.s)
            IN  IF s = <<>> THEN None
                ELSE LET f == PyFloat(Remove(Remove(s, " "), ","))
                     IN  IF f.t = "raise" THEN None ELSE f
      [] OTHER -> None

\* abs_tol_pass with the base compared as it is, not by its magnitude
abs_tol_pass_signed_base(delta, abs_tol, pct_tol, base) ==
    IF FLe(FAbs(delta), abs_tol) THEN TRUE
    ELSE IF FEq(base, Float(0)) THEN FALSE
    ELSE LePct(FAbs(delta), base, pct_tol)

abs_tol_pass(delta, abs_tol, pct_tol, base) ==
    IF FLe(FAbs(delta), abs_tol) THEN TRUE
    ELSE IF FEq(base, Float(0)) THEN FALSE
    ELSE LePct(FAbs(delta), FAbs(base), pct_tol)

----------------------------------------------------------------------------
(* _parse_dataset *)

\* str(x)
PyStr(x) ==
    CASE x.t = "str" -> x.s
      [] x.t = "none" -> <<"None">>
      [] x.t = "bool" -> IF x.n = 1 THEN <<"True">> ELSE <<"False">>
      [] x.t = "int" -> <<ToString(x.n)>>
      [] x.t = "float" -> <<ToString(x.n), ".0">>
      [] x.t = "nan" -> <<"nan">>
      [] x.t = "inf" -> IF x.n = 1 THEN <<"inf">> ELSE <<"-inf">>
      [] OTHER -> <<"[]">>

\* the column that holds the entity in each sheet
EntityColumn == [BS |-> "Balance_sheet", IS |-> "Income statement", EQ |-> "Equity"]

RowEntity(kind, r) == Strip(PyStr(Get(r, EntityColumn[kind], Str(<<>>))))

RowLineId(r) == Strip(PyStr(Get(r, "Unnamed: 1", Str(<<>>))))

\* the line item a row stores
RowItem(kind, r) ==
    IF kind = "BS"
    THEN [closing |-> to_float(Get(r, "Unnamed: 2", None)),
          opening |-> to_float(Get(r, "Unnamed: 3", None)),
          delta |-> to_float(Get(r, "Unnamed: 4", None))]
    ELSE [amount |-> to_float(Get(r, "Unnamed: 2", None))]

\* _to_float raises on a cell of the row: the numeric cells are read before
\* the identifiers are tested
RowRaises(kind, r) ==
    LET item == RowItem(kind, r)
    IN  \E c \in DOMAIN item : item[c].t = "raise"

\* position of an entity in the ordered dict, 0 when it is not a key
IndexOf(ents, entity) ==
    IF \E i \in 1..Len(ents) : ents[i].id = entity
    THEN CHOOSE i \in 1..Len(ents) : ents[i].id = entity
    ELSE 0

\* entities.setdefault(entity, {}).setdefault(kind, {});
\* entities[entity][kind][line_id] = item
Store(ents, entity, kind, line_id, item) ==
    LET i == IndexOf(ents, entity)
        old == IF i = 0 THEN EmptyDict ELSE ents[i].stmts
        new == Put(old, kind, Put(Get(old, kind, EmptyDict), line_id, item))
    IN  IF i = 0
        THEN Append(ents, [id |-> entity, stmts |-> new])
        ELSE [ents EXCEPT ![i].stmts = new]

\* one iteration of a row loop
parse_row(ents, kind, r) ==
    IF RowEntity(kind, r) = <<>> \/ RowLineId(r) = <<>>
    THEN ents
    ELSE Store(ents, RowEntity(kind, r), kind, RowLineId(r), RowItem(kind, r))

RECURSIVE parse_rows(_, _, _)
parse_rows(ents, kind, rows) ==
    IF rows = <<>> THEN ents
    ELSE parse_rows(parse_row(ents, kind, Head(rows)), kind, Tail(rows))

\* dataset: the "sheets" dict
parse_dataset(sheets) ==
    parse_rows(parse_rows(parse_rows(<<>>, "BS", Get(sheets, "BS", <<>>)),
                          "IS", Get(sheets, "IS", <<>>)),
               "EQ", Get(sheets, "EQ", <<>>))

----------------------------------------------------------------------------
(* the constraint checks of run() *)

Signal(type, severity, entity_id, statement, message, details) ==
    [type |-> type, severity |-> severity, entity_id |-> entity_id,
     statement |-> statement, message |-> message, details |-> details]

abs_default == Float(Get(tolerance, "absolute", 1000))

pct_default == Get(tolerance, "percentage", 1)

\* _to_float(stmt.get(line, {}).get(column))
Read(stmt, line, column) ==
    to_float(Get(Get(stmt, <<line>>, EmptyDict), column, None))

\* ReadEither with the fallback taken for a falsy first value (first or fallback)
ReadEither_or(stmt, first, fallback, column) ==
    IF Read(stmt, first, column) \notin {None, Float(0)}
    THEN Read(stmt, first, column)
    ELSE Read(stmt, fallback, column)

\* a line read under its first key, and under the fallback key when that is None
ReadEither(stmt, first, fallback, column) ==
    IF Read(stmt, first, column) # None
    THEN Read(stmt, first, column)
    ELSE Read(stmt, fallback, column)

OrZero(x) == IF x # None THEN x ELSE Float(0)

\* check_bs_equation with the tolerance taken relative to the assets
check_bs_equation_base_assets(entity_id, bs, abs_tol, pct_tol) ==
    LET assets == Read(bs, "AssetsTotal", "closing")
        le_total == Read(bs, "LiabilitiesAndEquityTotal", "closing")
        delta == FSub(assets, le_total)
    IN  IF assets # None /\ le_total # None
           /\ ~abs_tol_pass(delta, abs_tol, pct_tol, assets)
        THEN <<Signal("FIN.BS.EQUATION_BREAK", "CRITICAL", entity_id, "BS",
                      "Balance sheet equation fails: AssetsTotal != LiabilitiesAndEquityTotal beyond tolerance.",
                      [AssetsTotal |-> assets, LiabilitiesAndEquityTotal |-> le_total,
                       delta |-> delta, tolerance_abs |-> abs_tol,
                       tolerance_pct |-> pct_tol])>>
        ELSE <<>>

check_bs_equation(entity_id, bs, abs_tol, pct_tol) ==
    LET assets == Read(bs, "AssetsTotal", "closing")
        le_total == Read(bs, "LiabilitiesAndEquityTotal", "closing")
        delta == FSub(assets, le_total)
    IN  IF assets # None /\ le_total # None
           /\ ~abs_tol_pass(delta, abs_tol, pct_tol, le_total)
        THEN <<Signal("FIN.BS.EQUATION_BREAK", "CRITICAL", entity_id, "BS",
                      "Balance sheet equation fails: AssetsTotal != LiabilitiesAndEquityTotal beyond tolerance.",
                      [AssetsTotal |-> assets, LiabilitiesAndEquityTotal |-> le_total,
                       delta |-> delta, tolerance_abs |-> abs_tol,
                       tolerance_pct |-> pct_tol])>>
        ELSE <<>>

\* check_eq_rollforward with a missing opening or closing treated as 0, as
\* the missing profit and dividends are
check_eq_rollforward_zero_filled(entity_id, eq, abs_tol, pct_tol) ==
    LET opening == OrZero(Read(eq, "EquityOpening", "amount"))
        closing == OrZero(Read(eq, "EquityClosing", "amount"))
        profit == ReadEither(eq, "ProfitForTheYear", "ProfitAfterTax", "amount")
        dividends == ReadEither(eq, "Dividends", "DividendsPaid", "amount")
        other == OrZero(Read(eq, "OtherEquityMovements", "amount"))
        p == OrZero(profit)
        d == OrZero(dividends)
        expected == FAdd(FSub(FAdd(opening, p), d), other)
        delta == FSub(expected, closing)
    IN  IF ~abs_tol_pass(delta, abs_tol, pct_tol, closing)
        THEN <<Signal("FIN.EQ.ROLLFORWARD_BREAK", "CRITICAL", entity_id, "EQ",
                      "Equity roll-forward fails beyond tolerance.",
                      [EquityOpening |-> opening, Profit |-> p, Dividends |-> d,
                       OtherEquityMovements |-> other,
                       ExpectedEquityClosing |-> expected, EquityClosing |-> closing,
                       delta |-> delta, tolerance_abs |-> abs_tol,
                       tolerance_pct |-> pct_tol])>>
        ELSE <<>>

check_eq_rollforward(entity_id, eq, abs_tol, pct_tol) ==
    LET opening == Read(eq, "EquityOpening", "amount")
        closing == Read(eq, "EquityClosing", "amount")
        profit == ReadEither(eq, "ProfitForTheYear", "ProfitAfterTax", "amount")
        dividends == ReadEither(eq, "Dividends", "DividendsPaid", "amount")
        other == OrZero(Read(eq, "OtherEquityMovements", "amount"))
        p == OrZero(profit)
        d == OrZero(dividends)
        expected == FAdd(FSub(FAdd(opening, p), d), other)
        delta == FSub(expected, closing)
    IN  IF opening # None /\ closing # None
           /\ ~abs_tol_pass(delta, abs_tol, pct_tol, closing)
        THEN <<Signal("FIN.EQ.ROLLFORWARD_BREAK", "CRITICAL", entity_id, "EQ",
                      "Equity roll-forward fails beyond tolerance.",
                      [EquityOpening |-> opening, Profit |-> p, Dividends |-> d,
                       OtherEquityMovements |-> other,
                       ExpectedEquityClosing |-> expected, EquityClosing |-> closing,
                       delta |-> delta, tolerance_abs |-> abs_tol,
                       tolerance_pct |-> pct_tol])>>
        ELSE <<>>

\* check_dividend nested in the roll-forward's test of opening and closing
check_dividend_in_rollforward(entity_id, eq, abs_tol) ==
    LET opening == Read(eq, "EquityOpening", "amount")
        closing == Read(eq, "EquityClosing", "amount")
        dividends == ReadEither(eq, "Dividends", "DividendsPaid", "amount")
        threshold == FAdd(FAbs(closing), abs_tol)
    IN  IF opening # None /\ closing # None /\ dividends # None
           /\ FGt(FAbs(dividends), threshold)
        THEN <<Signal("FIN.DIV.LEGALITY_IMPOSSIBLE", "CRITICAL", entity_id, "EQ",
                      "Dividend appears structurally impossible relative to closing equity capacity (pilot test).",
                      [Dividends |-> dividends, EquityClosing |-> closing,
                       threshold |-> threshold, tolerance_abs |-> abs_tol])>>
        ELSE <<>>

check_dividend(entity_id, eq, abs_tol) ==
    LET closing == Read(eq, "EquityClosing", "amount")
        dividends == ReadEither(eq, "Dividends", "DividendsPaid", "amount")
        threshold == FAdd(FAbs(closing), abs_tol)
    IN  IF closing # None /\ dividends # None /\ FGt(FAbs(dividends), threshold)
        THEN <<Signal("FIN.DIV.LEGALITY_IMPOSSIBLE", "CRITICAL", entity_id, "EQ",
                      "Dividend appears structurally impossible relative to closing equity capacity (pilot test).",
                      [Dividends |-> dividends, EquityClosing |-> closing,
                       threshold |-> threshold, tolerance_abs |-> abs_tol])>>
        ELSE <<>>

LargeAmount == 1000000

check_counterpart(entity_id, bs, is_) ==
    LET extraordinary_income == Read(is_, "ExtraordinaryIncome", "amount")
        recv_move == Read(bs, "ReceivablesMovement", "delta")
    IN  IF extraordinary_income # None /\ recv_move # None
           /\ FGt(FAbs(extraordinary_income), Float(LargeAmount))
           /\ LtTenth(FAbs(recv_move), FAbs(extraordinary_income))
        THEN <<Signal("FIN.DEBIT_CREDIT.MISSING_COUNTERPART", "CRITICAL", entity_id,
                      "IS/BS",
                      "Large income event without corresponding receivable movement (heuristic).",
                      [ExtraordinaryIncome |-> extraordinary_income,
                       ReceivablesMovement |-> recv_move])>>
        ELSE <<>>

check_impairment(entity_id, is_) ==
    LET impairment ==
            ReadEither(is_, "Impairment_Investments", "WriteDownsInvestments", "amount")
    IN  IF impairment # None /\ FGe(FAbs(impairment), Float(LargeAmount))
        THEN <<Signal("FIN.WRITEDOWN.CAUSALITY_BREAK", "HIGH", entity_id, "IS/BS",
                      "Large impairment/write-down triggers structural review.",
                      [Impairment |-> impairment])>>
        ELSE <<>>

\* check_entity with the statement-level heuristics run ahead of the equity checks
check_entity_heuristics_first(entity_id, stmts, abs_tol, pct_tol) ==
    LET bs == Get(stmts, "BS", EmptyDict)
        is_ == Get(stmts, "IS", EmptyDict)
        eq == Get(stmts, "EQ", EmptyDict)
    IN  check_bs_equation(entity_id, bs, abs_tol, pct_tol)
        \o check_counterpart(entity_id, bs, is_)
        \o check_impairment(entity_id, is_)
        \o check_eq_rollforward(entity_id, eq, abs_tol, pct_tol)
        \o check_dividend(entity_id, eq, abs_tol)

\* one iteration of the entity loop: the signals it appends
check_entity(entity_id, stmts, abs_tol, pct_tol) ==
    LET bs == Get(stmts, "BS", EmptyDict)
        is_ == Get(stmts, "IS", EmptyDict)
        eq == Get(stmts, "EQ", EmptyDict)
    IN  check_bs_equation(entity_id, bs, abs_tol, pct_tol)
        \o check_eq_rollforward(entity_id, eq, abs_tol, pct_tol)
        \o check_dividend(entity_id, eq, abs_tol)
        \o check_counterpart(entity_id, bs, is_)
        \o check_impairment(entity_id, is_)

----------------------------------------------------------------------------
(* rule annotation and the report *)

RECURSIVE rule_lookup_from(_, _)
rule_lookup_from(out, rules) ==
    IF rules = <<>> THEN out
    ELSE LET r == Head(rules)
             st == Get(r, "signal_type", "")
         IN  rule_lookup_from(IF st # "" THEN Put(out, st, r) ELSE out, Tail(rules))

\* rule_lookup with the first entry of a signal type kept
rule_lookup_first_wins(rules) ==
    rule_lookup_from(EmptyDict, [i \in 1..Len(rules) |-> rules[Len(rules) + 1 - i]])

rule_lookup(rules) == rule_lookup_from(EmptyDict, rules)

apply_rules(signal, rule_map) ==
    LET r == Get(rule_map, signal.type, EmptyDict)
    IN  [risk_level |-> Get(r, "risk_level", "UNSPECIFIED"),
         escalation |-> Get(r, "escalation", "UNSPECIFIED"),
         rule_id |-> Get(r, "rule_id", "UNSPECIFIED")]

out_signal(s, rule_map) ==
    LET rule_applied == apply_rules(s, rule_map)
    IN  [type |-> s.type, severity |-> s.severity, entity_id |-> s.entity_id,
         statement |-> s.statement, message |-> s.message, details |-> s.details,
         risk_level |-> rule_applied.risk_level,
         escalation |-> rule_applied.escalation,
         rule_id |-> rule_applied.rule_id]

\* out_signals with a signal left out when the one before it has its type
out_signals_one_per_type(sigs, rule_map) ==
    LET keep == {i \in 1..Len(sigs) : i = 1 \/ sigs[i].type # sigs[i - 1].type}
        nth(k) == CHOOSE i \in keep : Cardinality({j \in keep : j <= i}) = k
    IN  [k \in 1..Cardinality(keep) |-> out_signal(sigs[nth(k)], rule_map)]

out_signals(sigs, rule_map) ==
    [i \in 1..Len(sigs) |-> out_signal(sigs[i], rule_map)]

make_report(sigs, rule_map) ==
    [report_id |-> "sta.financial.run_report.v0_1",
     signals_count |-> Len(out_signals(sigs, rule_map)),
     signals |-> out_signals(sigs, rule_map)]

----------------------------------------------------------------------------
(* inputs *)

MaxRows == 4

MaxRules == 2

MaxStrLen == 3

MaxVal == 3

\* a key the dict does not hold
Missing == Val("missing", 0, <<>>)

\* the dict of the cells that are not Missing
Row(cells) == [c \in {k \in DOMAIN cells : cells[k] # Missing} |-> cells[c]]

SheetRow(kind, entity, line_id, c2, c3, c4) ==
    Row((EntityColumn[kind] :> entity) @@ ("Unnamed: 1" :> line_id)
        @@ ("Unnamed: 2" :> c2) @@ ("Unnamed: 3" :> c3) @@ ("Unnamed: 4" :> c4))

Chars(n) ==
    CASE n = 1000000 -> <<"1", ",", "0", "0", "0", ",", "0", "0", "0">>
      [] n = 1050000 -> <<"1", ",", "0", "5", "0", ",", "0", "0", "0">>
      [] n = 2000000 -> <<"2", " ", "0", "0", "0", " ", "0", "0", "0">>

Unparsable == Str(<<"n", "/", "a">>)

\* entity cells of the rows read one at a time
EntityCells ==
    {Missing, None, Str(<<" ">>), Str(<<"A">>), Str(<<" ", "A", " ">>), Str(<<"B">>)}

BlankLineCells == {Missing, Str(<<>>)}

BSRows ==
    {SheetRow("BS", e, x[1], x[2], o, Missing) :
        e \in EntityCells,
        x \in ({Str(<<"AssetsTotal">>)} \X {PyInt(1000000)})
              \cup ({Str(<<"LiabilitiesAndEquityTotal", " ">>)}
                    \X {Str(Chars(2000000))})
              \cup (BlankLineCells \X {PyInt(1000000)}),
        o \in {Missing, HugeInt(1)}}

ISRows ==
    {SheetRow("IS", e, x[1], x[2], Missing, Missing) :
        e \in EntityCells,
        x \in ({Str(<<"Impairment_Investments">>)} \X {Str(Chars(1000000))})
              \cup (BlankLineCells \X {PyInt(1000000)})}

EQRows ==
    {SheetRow("EQ", e, x[1], x[2], Missing, Missing) :
        e \in EntityCells,
        x \in ({Str(<<"EquityClosing">>)} \X {PyInt(0)})
              \cup ({Str(<<" ", "Dividends">>)} \X {Float(2000000)})
              \cup (BlankLineCells \X {Float(2000000)})}

SheetRows == [BS |-> BSRows, IS |-> ISRows, EQ |-> EQRows]

Rule(st, risk_level, escalation, rule_id) ==
    LET cells == [signal_type |-> st, risk_level |-> risk_level,
                  escalation |-> escalation, rule_id |-> rule_id]
    IN  [c \in {k \in DOMAIN cells : cells[k] # "-"} |-> cells[c]]

\* the rule packs of the runs that read rows one at a time
FewRulePacks ==
    {<<>>,
     <<Rule("FIN.WRITEDOWN.CAUSALITY_BREAK", "HIGH", "BOARD", "R5")>>,
     <<Rule("FIN.DIV.LEGALITY_IMPOSSIBLE", "LOW", "-", "R3"),
       Rule("FIN.DIV.LEGALITY_IMPOSSIBLE", "HIGH", "CFO", "-")>>}

Tolerances == {EmptyDict, [absolute |-> 0, percentage |-> 1000]}

----------------------------------------------------------------------------
(* run(), the rows of the dataset read one at a time *)

\* an identifier cell that is missing, null, empty or whitespace only
BlankCell(x) == x.t \in {"missing", "none"} \/ (x.t = "str" /\ Strip(x.s) = <<>>)

BlankRow(kind, r) ==
    \/ BlankCell(Get(r, EntityColumn[kind], Missing))
    \/ BlankCell(Get(r, "Unnamed: 1", Missing))

Init ==
    /\ pc = "BS"
    /\ rules_pack \in FewRulePacks
    /\ tolerance = EmptyDict
    /\ nrows = 0
    /\ entities = <<>>
    /\ kept = <<>>
    /\ nchecked = 0
    /\ signals = <<>>
    /\ report = EmptyDict
    /\ arg = None
    /\ ret = None

\* one iteration of the row loop of the sheet pc names
ReadRow ==
    /\ pc \in {"BS", "IS", "EQ"}
    /\ nrows < MaxRows
    /\ \E r \in SheetRows[pc] :
        /\ ~RowRaises(pc, r)
        /\ entities' = parse_row(entities, pc, r)
        /\ kept' = IF BlankRow(pc, r) THEN kept ELSE parse_row(kept, pc, r)
    /\ nrows' = nrows + 1
    /\ UNCHANGED <<pc, rules_pack, tolerance, nchecked, signals, report, arg, ret>>

\* _to_float raises in a row: the run ends without a report
ReadRowRaises ==
    /\ pc \in {"BS", "IS", "EQ"}
    /\ nrows < MaxRows
    /\ \E r \in SheetRows[pc] : RowRaises(pc, r)
    /\ pc' = "raised"
    /\ UNCHANGED <<rules_pack, tolerance, nrows, entities, kept, nchecked, signals,
                   report, arg, ret>>

\* the sheet has no more rows
EndSheet ==
    /\ pc \in {"BS", "IS", "EQ"}
    /\ pc' = CASE pc = "BS" -> "IS" [] pc = "IS" -> "EQ" [] OTHER -> "check"
    /\ nrows' = IF pc = "EQ" THEN 0 ELSE nrows
    /\ UNCHANGED <<rules_pack, tolerance, entities, kept, nchecked, signals, report,
                   arg, ret>>

\* one iteration of the entity loop
CheckEntity ==
    /\ pc = "check"
    /\ nchecked < Len(entities)
    /\ signals' = signals \o check_entity(entities[nchecked + 1].id,
                                          entities[nchecked + 1].stmts,
                                          abs_default, pct_default)
    /\ nchecked' = nchecked + 1
    /\ UNCHANGED <<pc, rules_pack, tolerance, nrows, entities, kept, report, arg, ret>>

\* the rule mapping of the signals and the report
Report ==
    /\ pc = "check"
    /\ nchecked = Len(entities)
    /\ report' = make_report(signals, rule_lookup(rules_pack))
    /\ pc' = "done"
    /\ UNCHANGED <<rules_pack, tolerance, nrows, entities, kept, nchecked, signals,
                   arg, ret>>

Next == ReadRow \/ ReadRowRaises \/ EndSheet \/ CheckEntity \/ Report

Spec == Init /\ [][Next]_vars

----------------------------------------------------------------------------
(* run() on a whole dataset: one entity, every line the checks read *)

\* the row of a line, its cell in column c2 or c4; no row for a Missing cell
LineRow(kind, line, column, cell) ==
    IF cell = Missing THEN <<>>
    ELSE <<SheetRow(kind, Str(<<"E">>), Str(<<line>>),
                    IF column = "Unnamed: 2" THEN cell ELSE Missing, Missing,
                    IF column = "Unnamed: 4" THEN cell ELSE Missing)>>

Sheets(f) ==
    [BS |-> LineRow("BS", "AssetsTotal", "Unnamed: 2", f.assets)
            \o LineRow("BS", "LiabilitiesAndEquityTotal", "Unnamed: 2", f.le_total)
            \o LineRow("BS", "ReceivablesMovement", "Unnamed: 4", f.recv_move),
     IS |-> LineRow("IS", "ExtraordinaryIncome", "Unnamed: 2", f.income)
            \o LineRow("IS", "Impairment_Investments", "Unnamed: 2", f.impairment)
            \o LineRow("IS", "WriteDownsInvestments", "Unnamed: 2", f.writedown),
     EQ |-> LineRow("EQ", "EquityOpening", "Unnamed: 2", f.opening)
            \o LineRow("EQ", "EquityClosing", "Unnamed: 2", f.closing)
            \o LineRow("EQ", "ProfitForTheYear", "Unnamed: 2", f.profit)
            \o LineRow("EQ", "ProfitAfterTax", "Unnamed: 2", f.profit_after_tax)
            \o LineRow("EQ", "Dividends", "Unnamed: 2", f.dividends)
            \o LineRow("EQ", "DividendsPaid", "Unnamed: 2", f.dividends_paid)
            \o LineRow("EQ", "OtherEquityMovements", "Unnamed: 2", f.other)]

\* datasets that vary the equity sheet
EquityCells ==
    [assets : {PyInt(1000000)},
     le_total : {PyInt(1000000), PyInt(2000000)},
     recv_move : {Missing}, income : {Missing}, impairment : {Missing},
     writedown : {Missing},
     opening : {Missing, PyInt(0), PyInt(1000000)},
     closing : {Missing, Unparsable, PyInt(0), Str(Chars(1000000)), PyInt(-1000000)},
     profit : {Missing, Unparsable, PyInt(0), PyInt(1000000)},
     profit_after_tax : {Missing, PyInt(2000000)},
     dividends : {Missing, Unparsable, PyInt(0), PyInt(-2000000)},
     dividends_paid : {Missing, PyInt(1000000)},
     other : {Missing, Unparsable, PyInt(1000000)}]

\* datasets that vary the balance sheet and the income statement
StatementCells ==
    [assets : {Missing, Unparsable, PyInt(0), PyInt(1000000), Str(<<"i", "n", "f">>)},
     le_total : {Missing, Str(<<"n", "a", "n">>), PyInt(0), PyInt(1000000),
                 Str(Chars(1050000)), PyInt(-1000000), Str(<<"i", "n", "f">>)},
     recv_move : {Missing, Unparsable, PyInt(0), PyInt(200000), PyInt(-1000000)},
     income : {Missing, Unparsable, PyInt(1000000), PyInt(2000000), PyInt(-2000000)},
     impairment : {Missing, Unparsable, PyInt(0), Float(1000000), PyInt(-1000000)},
     writedown : {Missing, PyInt(999999), PyInt(1000000)},
     opening : {Missing}, closing : {PyInt(0)}, profit : {Missing},
     profit_after_tax : {Missing}, dividends : {Missing, PyInt(2000000)},
     dividends_paid : {Missing}, other : {Missing}]

\* a dataset whose signals are of three types
ThreeSignals ==
    [assets |-> PyInt(1000000), le_total |-> PyInt(2000000), recv_move |-> Missing,
     income |-> Missing, impairment |-> PyInt(1000000), writedown |-> Missing,
     opening |-> Missing, closing |-> PyInt(0), profit |-> Missing,
     profit_after_tax |-> Missing, dividends |-> PyInt(2000000),
     dividends_paid |-> Missing, other |-> Missing]

RuleEntries ==
    {Rule(st, x[1], x[2], x[3]) :
        st \in {"-", "", "FIN.DIV.LEGALITY_IMPOSSIBLE", "FIN.WRITEDOWN.CAUSALITY_BREAK"},
        x \in {<<"HIGH", "CFO", "R1">>, <<"LOW", "-", "-">>, <<"-", "-", "-">>}}

RulePacks == UNION {[1..n -> RuleEntries] : n \in 0..MaxRules}

InitRun ==
    /\ pc = "loaded"
    /\ \/ /\ arg \in {Sheets(f) : f \in EquityCells \cup StatementCells}
          /\ tolerance \in Tolerances
          /\ rules_pack = <<>>
       \/ /\ arg = Sheets(ThreeSignals)
          /\ tolerance = EmptyDict
          /\ rules_pack \in RulePacks
    /\ nrows = 0
    /\ entities = <<>>
    /\ kept = <<>>
    /\ nchecked = 0
    /\ signals = <<>>
    /\ report = EmptyDict
    /\ ret = None

DatasetRaises(sheets) ==
    \E kind \in DOMAIN sheets : \E i \in 1..Len(sheets[kind]) :
        RowRaises(kind, sheets[kind][i])

\* entities = _parse_dataset(dataset)
ParseDataset ==
    /\ pc = "loaded"
    /\ IF DatasetRaises(arg)
       THEN pc' = "raised" /\ UNCHANGED entities
       ELSE pc' = "check" /\ entities' = parse_dataset(arg)
    /\ UNCHANGED <<rules_pack, tolerance, nrows, kept, nchecked, signals, report,
                   arg, ret>>

NextRun == ParseDataset \/ CheckEntity \/ Report

SpecRun == InitRun /\ [][NextRun]_vars

----------------------------------------------------------------------------
(* _to_float and _abs_tol_pass on their own *)

Alphabet == {" ", ",", "-", "0", "1", "n", "a", "i", "f", "/"}

Texts == UNION {[1..n -> Alphabet] : n \in 0..MaxStrLen}

RawValues ==
    {None, Bool(TRUE), Bool(FALSE), Other, NaN, Inf(1), Inf(-1), HugeInt(1),
     HugeInt(-1)}
    \cup {PyInt(n) : n \in -MaxVal..MaxVal}
    \cup {Float(n) : n \in -MaxVal..MaxVal}
    \cup {Str(s) : s \in Texts}

InitNorm ==
    /\ pc = "call"
    /\ arg \in RawValues
    /\ ret = None
    /\ rules_pack = <<>>
    /\ tolerance = EmptyDict
    /\ nrows = 0
    /\ entities = <<>>
    /\ kept = <<>>
    /\ nchecked = 0
    /\ signals = <<>>
    /\ report = EmptyDict

Normalize ==
    /\ pc = "call"
    /\ ret' = to_float(arg)
    /\ pc' = IF ret'.t = "raise" THEN "raised" ELSE "return"
    /\ UNCHANGED <<rules_pack, tolerance, nrows, entities, kept, nchecked, signals,
                   report, arg>>

NextNorm == Normalize

SpecNorm == InitNorm /\ [][NextNorm]_vars

Floats == {Float(n) : n \in -MaxVal..MaxVal} \cup {NaN, Inf(1), Inf(-1)}

InitTol ==
    /\ pc = "call"
    /\ arg \in [delta : Floats, abs_tol : {Float(n) : n \in 0..MaxVal},
                pct_tol : {0, 1, 500, 1000, 2000}, base : Floats]
    /\ ret = None
    /\ rules_pack = <<>>
    /\ tolerance = EmptyDict
    /\ nrows = 0
    /\ entities = <<>>
    /\ kept = <<>>
    /\ nchecked = 0
    /\ signals = <<>>
    /\ report = EmptyDict

AbsTolPass ==
    /\ pc = "call"
    /\ ret' = Bool(abs_tol_pass(arg.delta, arg.abs_tol, arg.pct_tol, arg.base))
    /\ pc' = "return"
    /\ UNCHANGED <<rules_pack, tolerance, nrows, entities, kept, nchecked, signals,
                   report, arg>>

NextTol == AbsTolPass

SpecTol == InitTol /\ [][NextTol]_vars

----------------------------------------------------------------------------
(* the properties *)

\* the amount the parsed model holds for a line: a number, or None (absent).
\* A stored nan counts as absent: every check reads a stored value through
\* _to_float again, which turns a float nan into None.
Amount(stmts, kind, line, column) ==
    LET v == Get(Get(Get(stmts, kind, EmptyDict), <<line>>, EmptyDict), column, None)
    IN  IF v.t = "nan" THEN None ELSE v

Present(v) == v # None

FirstPresent(a, b) == IF Present(a) THEN a ELSE b

ZeroIfAbsent(v) == IF Present(v) THEN v ELSE Float(0)

\* |delta| <= absTol, or base != 0 and |delta| <= |base| * pctTol
WithinTolerance(delta, absTol, pctTol, base) ==
    \/ FLe(FAbs(delta), absTol)
    \/ ~FEq(base, Float(0)) /\ LePct(FAbs(delta), FAbs(base), pctTol)

\* the positions in signals of the signals of a type for an entity
SignalsOf(type, entity_id) ==
    {k \in 1..Len(signals) :
        signals[k].type = type /\ signals[k].entity_id = entity_id}

\* an entity has exactly one signal of the type, of that severity, when cond
\* holds, and none when it does not
OneIff(type, severity, entity_id, cond) ==
    /\ Cardinality(SignalsOf(type, entity_id)) = IF cond THEN 1 ELSE 0
    /\ \A k \in SignalsOf(type, entity_id) : signals[k].severity = severity

\* C1: for every entity the check loop has been through, signals holds exactly
\* one CRITICAL FIN.BS.EQUATION_BREAK of the entity if AssetsTotal.closing and
\* LiabilitiesAndEquityTotal.closing are both present and assets - leTotal is
\* not within tolerance of base leTotal, and none otherwise.
C1_BalanceSheetIdentity ==
    \A i \in 1..nchecked :
        LET st == entities[i].stmts
            assets == Amount(st, "BS", "AssetsTotal", "closing")
            leTotal == Amount(st, "BS", "LiabilitiesAndEquityTotal", "closing")
        IN  OneIff("FIN.BS.EQUATION_BREAK", "CRITICAL", entities[i].id,
                   /\ Present(assets)
                   /\ Present(leTotal)
                   /\ ~WithinTolerance(FSub(assets, leTotal), abs_default,
                                       pct_default, leTotal))

\* Scenario B: assets 1,000,000 against 1,050,000 under the default tolerances
\* has raised the signal.
C1_Witness ==
    /\ nchecked = 1
    /\ tolerance = EmptyDict
    /\ \E k \in 1..Len(signals) :
        /\ signals[k].type = "FIN.BS.EQUATION_BREAK"
        /\ signals[k].details.AssetsTotal = Float(1000000)
        /\ signals[k].details.LiabilitiesAndEquityTotal = Float(1050000)

\* C2: for every entity the check loop has been through, signals holds exactly
\* one CRITICAL FIN.EQ.ROLLFORWARD_BREAK of the entity if EquityOpening and
\* EquityClosing are both present and opening + profit - dividends + other -
\* closing is not within tolerance of base closing, and none otherwise; profit
\* is ProfitForTheYear if present, else ProfitAfterTax, dividends is Dividends
\* if present, else DividendsPaid, and each of profit, dividends and other is 0
\* when absent.
C2_EquityRollForward ==
    \A i \in 1..nchecked :
        LET st == entities[i].stmts
            opening == Amount(st, "EQ", "EquityOpening", "amount")
            closing == Amount(st, "EQ", "EquityClosing", "amount")
            profit == ZeroIfAbsent(FirstPresent(
                          Amount(st, "EQ", "ProfitForTheYear", "amount"),
                          Amount(st, "EQ", "ProfitAfterTax", "amount")))
            dividends == ZeroIfAbsent(FirstPresent(
                             Amount(st, "EQ", "Dividends", "amount"),
                             Amount(st, "EQ", "DividendsPaid", "amount")))
            other == ZeroIfAbsent(Amount(st, "EQ", "OtherEquityMovements", "amount"))
            delta == FSub(FAdd(FSub(FAdd(opening, profit), dividends), other), closing)
        IN  OneIff("FIN.EQ.ROLLFORWARD_BREAK", "CRITICAL", entities[i].id,
                   /\ Present(opening)
                   /\ Present(closing)
                   /\ ~WithinTolerance(delta, abs_default, pct_default, closing))

\* A ProfitForTheYear of 0 has won over a ProfitAfterTax of 2,000,000: opening
\* and closing are both 0 and the entity has no roll-forward signal.
C2_Witness ==
    /\ nchecked = 1
    /\ LET st == entities[1].stmts
       IN  /\ Amount(st, "EQ", "EquityOpening", "amount") = Float(0)
           /\ Amount(st, "EQ", "EquityClosing", "amount") = Float(0)
           /\ Amount(st, "EQ", "ProfitForTheYear", "amount") = Float(0)
           /\ Amount(st, "EQ", "ProfitAfterTax", "amount") = Float(2000000)
           /\ ~Present(Amount(st, "EQ", "Dividends", "amount"))
           /\ ~Present(Amount(st, "EQ", "DividendsPaid", "amount"))
           /\ ~Present(Amount(st, "EQ", "OtherEquityMovements", "amount"))
    /\ SignalsOf("FIN.EQ.ROLLFORWARD_BREAK", entities[1].id) = {}

\* C3: _abs_tol_pass returns true exactly when |delta| <= absTol, or base != 0
\* and |delta| <= |base| * pctTol.
C3_WithinTolerance ==
    pc = "return" =>
        ret = Bool(WithinTolerance(arg.delta, arg.abs_tol, arg.pct_tol, arg.base))

\* A negative base has passed a delta beyond the absolute tolerance by its
\* magnitude.
C3_Witness ==
    /\ pc = "return"
    /\ ret = Bool(TRUE)
    /\ arg.base.t = "float"
    /\ arg.base.n < 0
    /\ FGt(FAbs(arg.delta), arg.abs_tol)

\* C4: for every entity the check loop has been through, signals holds exactly
\* one CRITICAL FIN.DIV.LEGALITY_IMPOSSIBLE of the entity if EquityClosing and
\* the dividends (Dividends if present, else DividendsPaid) are both present
\* and |dividends| > |closing| + absTol, and none otherwise, whatever
\* EquityOpening and the other checks do.
C4_DividendPlausibility ==
    \A i \in 1..nchecked :
        LET st == entities[i].stmts
            closing == Amount(st, "EQ", "EquityClosing", "amount")
            dividends == FirstPresent(Amount(st, "EQ", "Dividends", "amount"),
                                      Amount(st, "EQ", "DividendsPaid", "amount"))
        IN  OneIff("FIN.DIV.LEGALITY_IMPOSSIBLE", "CRITICAL", entities[i].id,
                   /\ Present(closing)
                   /\ Present(dividends)
                   /\ FGt(FAbs(dividends), FAdd(FAbs(closing), abs_default)))

\* The dividend signal has been raised for an entity without EquityOpening,
\* hence without a roll-forward signal, and with a balance-sheet signal.
C4_Witness ==
    /\ nchecked = 1
    /\ ~Present(Amount(entities[1].stmts, "EQ", "EquityOpening", "amount"))
    /\ SignalsOf("FIN.DIV.LEGALITY_IMPOSSIBLE", entities[1].id) # {}
    /\ SignalsOf("FIN.EQ.ROLLFORWARD_BREAK", entities[1].id) = {}
    /\ SignalsOf("FIN.BS.EQUATION_BREAK", entities[1].id) # {}

SignalFields == {"type", "severity", "entity_id", "statement", "message", "details"}

\* C5: the report's signals are the emitted signals, one entry each, in
\* emission order, with type, severity, entity_id, statement, message and
\* details unchanged, and signals_count is their number.
C5_ReportRoundTrip ==
    pc = "done" =>
        /\ report.signals_count = Len(signals)
        /\ Len(report.signals) = Len(signals)
        /\ \A k \in 1..Len(signals) :
            \A f \in SignalFields : report.signals[k][f] = signals[k][f]

\* A report of three signals has been assembled.
C5_Witness == pc = "done" /\ Len(signals) = 3

CheckOrder ==
    <<"FIN.BS.EQUATION_BREAK", "FIN.EQ.ROLLFORWARD_BREAK",
      "FIN.DIV.LEGALITY_IMPOSSIBLE", "FIN.DEBIT_CREDIT.MISSING_COUNTERPART",
      "FIN.WRITEDOWN.CAUSALITY_BREAK">>

CheckRank(type) == CHOOSE r \in 1..Len(CheckOrder) : CheckOrder[r] = type

RECURSIVE run_checks(_, _, _)
run_checks(ents, abs_tol, pct_tol) ==
    IF ents = <<>> THEN <<>>
    ELSE check_entity(Head(ents).id, Head(ents).stmts, abs_tol, pct_tol)
         \o run_checks(Tail(ents), abs_tol, pct_tol)

\* C7: a row whose entity or line identifier is missing, null, empty or
\* whitespace only is stored nowhere in the parsed model, and the report is
\* the report of the dataset without such rows.
C7_BlankRowsDiscarded ==
    /\ entities = kept
    /\ pc = "done" =>
        report = make_report(run_checks(kept, abs_default, pct_default),
                             rule_lookup(rules_pack))

\* the rule-pack entries that carry the signal type
EntriesFor(type) ==
    {j \in 1..Len(rules_pack) :
        "signal_type" \in DOMAIN rules_pack[j] /\ rules_pack[j]["signal_type"] = type}

Last(S) == CHOOSE j \in S : \A k \in S : k <= j

\* C8: each of risk_level, escalation and rule_id of a report entry is the
\* field of the last rule-pack entry with the signal's type, and "UNSPECIFIED"
\* when there is no such entry or that entry does not carry the field; the run
\* ends with a report.
C8_RuleAnnotation ==
    /\ pc # "raised"
    /\ pc = "done" =>
        \A k \in 1..Len(report.signals) :
            \A f \in {"risk_level", "escalation", "rule_id"} :
                LET S == EntriesFor(report.signals[k].type)
                IN  report.signals[k][f] =
                        IF S # {} /\ f \in DOMAIN rules_pack[Last(S)]
                        THEN rules_pack[Last(S)][f]
                        ELSE "UNSPECIFIED"

\* The dividend signal has been annotated from the second of two entries of
\* its type, which carries no rule_id, and another signal has no entry.
C8_Witness ==
    /\ pc = "done"
    /\ Len(rules_pack) = 2
    /\ EntriesFor("FIN.DIV.LEGALITY_IMPOSSIBLE") = {1, 2}
    /\ rules_pack[1] = Rule("FIN.DIV.LEGALITY_IMPOSSIBLE", "HIGH", "CFO", "R1")
    /\ rules_pack[2] = Rule("FIN.DIV.LEGALITY_IMPOSSIBLE", "LOW", "-", "-")
    /\ \E k \in 1..Len(report.signals) :
        /\ report.signals[k].type = "FIN.DIV.LEGALITY_IMPOSSIBLE"
        /\ report.signals[k].risk_level = "LOW"
        /\ report.signals[k].rule_id = "UNSPECIFIED"
    /\ \E k \in 1..Len(report.signals) :
        /\ report.signals[k].type = "FIN.BS.EQUATION_BREAK"
        /\ report.signals[k].risk_level = "UNSPECIFIED"

\* C9: _to_float returns, and returns None or a number that is not NaN.
C9_NormalizeTotal == pc # "call" => ret.t \in {"none", "float", "inf"}

\* the cell of a line of the dataset, Missing when the dataset has no such row
RawCell(kind, line, column) ==
    LET rows == Get(arg, kind, <<>>)
        S == {k \in 1..Len(rows) : RowLineId(rows[k]) = <<line>>}
    IN  IF S = {} THEN Missing ELSE Get(rows[Last(S)], column, Missing)

\* text that holds something and that _to_float does not parse
UnparsableCell(x) ==
    x.t = "str" /\ Strip(x.s) # <<>> /\ PyFloat(Remove(Remove(Strip(x.s), " "), ",")).t = "raise"

\* the lines each check reads: signal type, statement kind, line, column
LinesRead ==
    {<<"FIN.BS.EQUATION_BREAK", "BS", "AssetsTotal", "Unnamed: 2">>,
     <<"FIN.BS.EQUATION_BREAK", "BS", "LiabilitiesAndEquityTotal", "Unnamed: 2">>,
     <<"FIN.EQ.ROLLFORWARD_BREAK", "EQ", "EquityOpening", "Unnamed: 2">>,
     <<"FIN.EQ.ROLLFORWARD_BREAK", "EQ", "EquityClosing", "Unnamed: 2">>,
     <<"FIN.EQ.ROLLFORWARD_BREAK", "EQ", "ProfitForTheYear", "Unnamed: 2">>,
     <<"FIN.EQ.ROLLFORWARD_BREAK", "EQ", "ProfitAfterTax", "Unnamed: 2">>,
     <<"FIN.EQ.ROLLFORWARD_BREAK", "EQ", "Dividends", "Unnamed: 2">>,
     <<"FIN.EQ.ROLLFORWARD_BREAK", "EQ", "DividendsPaid", "Unnamed: 2">>,
     <<"FIN.EQ.ROLLFORWARD_BREAK", "EQ", "OtherEquityMovements", "Unnamed: 2">>,
     <<"FIN.DIV.LEGALITY_IMPOSSIBLE", "EQ", "EquityClosing", "Unnamed: 2">>,
     <<"FIN.DIV.LEGALITY_IMPOSSIBLE", "EQ", "Dividends", "Unnamed: 2">>,
     <<"FIN.DIV.LEGALITY_IMPOSSIBLE", "EQ", "DividendsPaid", "Unnamed: 2">>,
     <<"FIN.DEBIT_CREDIT.MISSING_COUNTERPART", "IS", "ExtraordinaryIncome", "Unnamed: 2">>,
     <<"FIN.DEBIT_CREDIT.MISSING_COUNTERPART", "BS", "ReceivablesMovement", "Unnamed: 4">>,
     <<"FIN.WRITEDOWN.CAUSALITY_BREAK", "IS", "Impairment_Investments", "Unnamed: 2">>,
     <<"FIN.WRITEDOWN.CAUSALITY_BREAK", "IS", "WriteDownsInvestments", "Unnamed: 2">>}

\* C10 as stated: the run does not fail, and a check emits no signal for the
\* entity when the cell of a line it reads is an unparsable numeric string.
C10_SkippedOnAnyUnparsable ==
    /\ pc # "raised"
    /\ nchecked = 1 =>
        \A x \in LinesRead :
            UnparsableCell(RawCell(x[2], x[3], x[4])) =>
                SignalsOf(x[1], entities[1].id) = {}

\* the values each check cannot do without
RequiredAbsent(st, type) ==
    LET amt(kind, line, column) == Amount(st, kind, line, column)
    IN  CASE type = "FIN.BS.EQUATION_BREAK" ->
                \/ ~Present(amt("BS", "AssetsTotal", "closing"))
                \/ ~Present(amt("BS", "LiabilitiesAndEquityTotal", "closing"))
          [] type = "FIN.EQ.ROLLFORWARD_BREAK" ->
                \/ ~Present(amt("EQ", "EquityOpening", "amount"))
                \/ ~Present(amt("EQ", "EquityClosing", "amount"))
          [] type = "FIN.DIV.LEGALITY_IMPOSSIBLE" ->
                \/ ~Present(amt("EQ", "EquityClosing", "amount"))
                \/ ~Present(FirstPresent(amt("EQ", "Dividends", "amount"),
                                         amt("EQ", "DividendsPaid", "amount")))
          [] type = "FIN.DEBIT_CREDIT.MISSING_COUNTERPART" ->
                \/ ~Present(amt("IS", "ExtraordinaryIncome", "amount"))
                \/ ~Present(amt("BS", "ReceivablesMovement", "delta"))
          [] type = "FIN.WRITEDOWN.CAUSALITY_BREAK" ->
                ~Present(FirstPresent(amt("IS", "Impairment_Investments", "amount"),
                                      amt("IS", "WriteDownsInvestments", "amount")))

ColumnName == ("Unnamed: 2" :> "closing") @@ ("Unnamed: 4" :> "delta")

\* C10 as amended: the run does not fail; the cell of an unparsable numeric
\* string is stored as absent; and a check emits no signal for the entity when
\* a value it requires is absent: assets or leTotal, opening or closing,
\* closing or the dividends under both keys, the extraordinary income or the
\* receivables movement, the impairment under both keys.
C10_SkippedOnRequiredAbsent ==
    /\ pc # "raised"
    /\ nchecked = 1 =>
        /\ \A x \in LinesRead :
            UnparsableCell(RawCell(x[2], x[3], x[4])) =>
                ~Present(Amount(entities[1].stmts, x[2], x[3],
                                IF x[2] = "BS" THEN ColumnName[x[4]] ELSE "amount"))
        /\ \A r \in 1..Len(CheckOrder) :
            RequiredAbsent(entities[1].stmts, CheckOrder[r]) =>
                SignalsOf(CheckOrder[r], entities[1].id) = {}

\* EquityClosing is an unparsable string beside an EquityOpening and a
\* Dividends that are numbers: the roll-forward and the dividend check have
\* been skipped, and the balance-sheet check has raised its signal.
C10_Witness ==
    /\ nchecked = 1
    /\ UnparsableCell(RawCell("EQ", "EquityClosing", "Unnamed: 2"))
    /\ Present(Amount(entities[1].stmts, "EQ", "EquityOpening", "amount"))
    /\ Present(Amount(entities[1].stmts, "EQ", "Dividends", "amount"))
    /\ SignalsOf("FIN.EQ.ROLLFORWARD_BREAK", entities[1].id) = {}
    /\ SignalsOf("FIN.DIV.LEGALITY_IMPOSSIBLE", entities[1].id) = {}
    /\ SignalsOf("FIN.BS.EQUATION_BREAK", entities[1].id) # {}

====
